---- MODULE Spec2Model ----
(***************************************************************************)
(* Model of notes_database/init_db.py: the provisioner of the SQLite store *)
(* of the Notemaster notes application.                                    *)
(*                                                                         *)
(* One run of main() is a sequence of steps, one per function main()       *)
(* calls.  The store is the set of rows of each table plus the             *)
(* AUTOINCREMENT counters (sqlite_sequence).  DDL statements run in        *)
(* SQLite's autocommit mode (Python's sqlite3 opens a transaction only     *)
(* before INSERT/UPDATE/DELETE/REPLACE), the seed statements run in one    *)
(* transaction that conn.commit() ends; an exception closes the connection *)
(* without a commit, which rolls the transaction back.                     *)
(*                                                                         *)
(* Between runs the application (any other connection, with foreign keys   *)
(* enforced) adds, edits and deletes rows under the constraints of the     *)
(* schema the provisioner created.                                         *)
(***************************************************************************)
EXTENDS Integers, Sequences, FiniteSets, TLC

\* ------------------------------------------------------------------ bounds
\* Number of runs of main() in one behaviour.
MaxRuns == 2
\* Number of statements the application executes in one behaviour.
MaxExt == 1
\* Last value of the clock (CURRENT_TIMESTAMP, in seconds).
MaxClock == 1

\* ------------------------------------------------------- program constants
\* SQL NULL (row ids start at 1).
NULL == 0

\* The key/value pairs _upsert_app_info writes, in statement order.
app_info_rows ==
  << [key |-> "project_name", value |-> "notes_database"],
     [key |-> "version", value |-> "0.2.0"],
     [key |-> "author", value |-> "John Doe"],
     [key |-> "description",
      value |-> "SQLite database for the Notemaster notes app (notes, tags, note_tags)"] >>

seed_username == "demo"
seed_email == "demo@example.com"

seed_tags ==
  << [name |-> "work", color |-> "#3b82f6"],
     [name |-> "personal", color |-> "#06b6d4"],
     [name |-> "ideas", color |-> "#64748b"],
     [name |-> "urgent", color |-> "#ef4444"] >>

\* (title, content, is_archived); the owner is the user_id argument.
seed_notes ==
  << [title |-> "Welcome to Notemaster",
      content |-> "This is a demo note to help you verify the UI end-to-end.\n\nTry editing this note, adding tags, and searching for keywords like 'demo' or 'Notemaster'.",
      is_archived |-> 0],
     [title |-> "Retro checklist",
      content |-> "- Create a new note\n- Add tags\n- Search notes\n- Archive notes\n\nIf you can do all of these, the core UX is working.",
      is_archived |-> 0],
     [title |-> "Meeting notes (sample)",
      content |-> "Agenda:\n1) Status updates\n2) Blockers\n3) Next steps\n\nAction items:\n- Follow up on API integration\n- Confirm database schema supports tags",
      is_archived |-> 0],
     [title |-> "Archived example",
      content |-> "This is an archived note to test filtered views.",
      is_archived |-> 1] >>

\* note title -> tag names, in the dict's insertion order.
mappings ==
  << [note_title |-> "Welcome to Notemaster", tag_names |-> <<"ideas", "personal">>],
     [note_title |-> "Retro checklist", tag_names |-> <<"work", "urgent">>],
     [note_title |-> "Meeting notes (sample)", tag_names |-> <<"work">>],
     [note_title |-> "Archived example", tag_names |-> <<"personal">>] >>

\* The objects each schema function creates, in statement order.
core_tables_ddl == <<"app_info", "users">>

notes_schema_ddl ==
  <<"notes", "tags", "note_tags",
    "idx_notes_created_at", "idx_notes_updated_at", "idx_notes_archived",
    "idx_notes_user_id", "idx_tags_name",
    "idx_note_tags_tag_id", "idx_note_tags_note_id">>

uq_notes_title == "uq_notes_title"

SeqRange(s) == {s[i] : i \in 1..Len(s)}

SeedTitles == {n.title : n \in SeqRange(seed_notes)}
SeedTagNames == {t.name : t \in SeqRange(seed_tags)}

\* --------------------------------------------------------------- the store
EmptyStore ==
  [app_info |-> {}, users |-> {}, notes |-> {}, tags |-> {}, note_tags |-> {},
   seq |-> [app_info |-> 0, users |-> 0, notes |-> 0, tags |-> 0]]

VARIABLES
  pc,            \* position of the run of main(), "idle" when none runs
  schema,        \* tables and indexes that exist in the store file
  db,            \* the rows of the store, as the open connection sees them
  journal,       \* <<image>> of db at the start of the open transaction, or <<>>
  demo_user_id,  \* main()'s local demo_user_id
  raised,        \* the exception that left main(), "none" if none did
  warnings,      \* the warnings _write_connection_files printed in this run
  written,       \* the descriptor files this run wrote
  dir_exists,    \* whether the directory db_visualizer exists
  now,           \* the clock CURRENT_TIMESTAMP reads
  pre,           \* history: db before the run, or before the application's statement
  pre_schema,    \* history: schema before the run
  after_commit,  \* history: the run started right after a run that committed
  runs,          \* history: runs started
  ext            \* history: application statements executed

vars == <<pc, schema, db, journal, demo_user_id, raised, warnings, written,
          dir_exists, now, pre, pre_schema, after_commit, runs, ext>>


\* ------------------------------------------------------- SQL statements
\* INSERT OR REPLACE INTO app_info (key, value): a row with the same key is
\* deleted and a new row, with a new AUTOINCREMENT id, is inserted.
InsertOrReplaceAppInfo(d, key, value, t) ==
  LET id == d.seq.app_info + 1 IN
  [d EXCEPT !.app_info = {r \in @ : r.key # key}
                           \cup {[id |-> id, key |-> key, value |-> value,
                                  created_at |-> t]},
            !.seq.app_info = id]

\* INSERT OR IGNORE INTO users (username, email): ignored when either UNIQUE
\* column conflicts; the AUTOINCREMENT counter advances either way.
InsertOrIgnoreUser(d, username, email, t) ==
  LET id == d.seq.users + 1
      conflict == \E u \in d.users : u.username = username \/ u.email = email
  IN [d EXCEPT !.users = IF conflict THEN @
                         ELSE @ \cup {[id |-> id, username |-> username,
                                       email |-> email, created_at |-> t]},
               !.seq.users = id]

\* SELECT id FROM users WHERE username = ?: the ids of the matching rows.
SelectUserIds(d, username) == {u.id : u \in {x \in d.users : x.username = username}}

\* Faulty variant: a plain INSERT with no OR IGNORE and no UNIQUE on tags.name.
InsertTagAlways(d, name, color, t) ==
  LET id == d.seq.tags + 1 IN
  [d EXCEPT !.tags = @ \cup {[id |-> id, name |-> name, color |-> color,
                              created_at |-> t]},
            !.seq.tags = id]

\* Faulty variant: INSERT OR REPLACE, which deletes the tag of that name (and, by the
\* cascade, its associations) and inserts the seed row.
InsertOrReplaceTag(d, name, color, t) ==
  LET id == d.seq.tags + 1
      old == {g.id : g \in {x \in d.tags : x.name = name}}
  IN [d EXCEPT !.tags = {g \in @ : g.name # name}
                          \cup {[id |-> id, name |-> name, color |-> color,
                                 created_at |-> t]},
               !.note_tags = {r \in @ : r.tag_id \notin old},
               !.seq.tags = id]

\* INSERT OR IGNORE INTO tags (name, color).
InsertOrIgnoreTag(d, name, color, t) ==
  LET id == d.seq.tags + 1
      conflict == \E g \in d.tags : g.name = name
  IN [d EXCEPT !.tags = IF conflict THEN @
                        ELSE @ \cup {[id |-> id, name |-> name, color |-> color,
                                      created_at |-> t]},
               !.seq.tags = id]

\* Faulty variant: INSERT OR REPLACE, which deletes the note of that title (and, by
\* the cascade, its associations) and inserts the seed row under a new id.
UpsertNoteReplaces(d, title, content, uid, is_archived, t) ==
  LET id == d.seq.notes + 1
      old == {n.id : n \in {x \in d.notes : x.title = title}}
  IN [d EXCEPT !.notes = {n \in @ : n.title # title}
                           \cup {[id |-> id, title |-> title, content |-> content,
                                  user_id |-> uid, is_archived |-> is_archived,
                                  created_at |-> t, updated_at |-> t]},
               !.note_tags = {r \in @ : r.note_id \notin old},
               !.seq.notes = id]

\* Faulty variant: the DO UPDATE also refreshes updated_at of the notes it does not
\* conflict with.
UpsertNoteTouchesAll(d, title, content, uid, is_archived, t) ==
  LET id == d.seq.notes + 1
      conflict == \E n \in d.notes : n.title = title
  IN [d EXCEPT !.notes =
                 IF conflict
                 THEN {IF n.title = title
                       THEN [n EXCEPT !.content = content, !.user_id = uid,
                                      !.is_archived = is_archived,
                                      !.updated_at = t]
                       ELSE [n EXCEPT !.updated_at = t + 1] : n \in @}
                 ELSE @ \cup {[id |-> id, title |-> title, content |-> content,
                               user_id |-> uid, is_archived |-> is_archived,
                               created_at |-> t, updated_at |-> t]},
               !.seq.notes = id]

\* INSERT INTO notes ... ON CONFLICT(title) DO UPDATE SET content, user_id,
\* is_archived, updated_at.
UpsertNote(d, title, content, uid, is_archived, t) ==
  LET id == d.seq.notes + 1
      conflict == \E n \in d.notes : n.title = title
  IN [d EXCEPT !.notes =
                 IF conflict
                 THEN {IF n.title = title
                       THEN [n EXCEPT !.content = content, !.user_id = uid,
                                      !.is_archived = is_archived,
                                      !.updated_at = t]
                       ELSE n : n \in @}
                 ELSE @ \cup {[id |-> id, title |-> title, content |-> content,
                               user_id |-> uid, is_archived |-> is_archived,
                               created_at |-> t, updated_at |-> t]},
               !.seq.notes = id]

\* SELECT id FROM notes WHERE title = ? / SELECT id FROM tags WHERE name = ?.
SelectNoteIds(d, title) == {n.id : n \in {x \in d.notes : x.title = title}}
SelectTagIds(d, name) == {g.id : g \in {x \in d.tags : x.name = name}}

\* INSERT OR IGNORE INTO note_tags (note_id, tag_id): PRIMARY KEY (note_id, tag_id).
InsertOrIgnoreNoteTag(d, note_id, tag_id, t) ==
  LET conflict == \E r \in d.note_tags : r.note_id = note_id /\ r.tag_id = tag_id
  IN [d EXCEPT !.note_tags = IF conflict THEN @
                             ELSE @ \cup {[note_id |-> note_id, tag_id |-> tag_id,
                                           created_at |-> t]}]

\* fetchone(): the first row of a result, by rowid.
FetchOne(ids) == CHOOSE i \in ids : \A j \in ids : i <= j

\* ------------------------------------------------------- seed functions
RECURSIVE UpsertAppInfoFrom(_, _, _)
UpsertAppInfoFrom(d, i, t) ==
  IF i > Len(app_info_rows) THEN d
  ELSE UpsertAppInfoFrom(
         InsertOrReplaceAppInfo(d, app_info_rows[i].key, app_info_rows[i].value, t),
         i + 1, t)

RECURSIVE SeedTagsFrom(_, _, _)
SeedTagsFrom(d, i, t) ==
  IF i > Len(seed_tags) THEN d
  ELSE SeedTagsFrom(InsertOrIgnoreTag(d, seed_tags[i].name, seed_tags[i].color, t),
                    i + 1, t)

RECURSIVE SeedNotesFrom(_, _, _, _)
SeedNotesFrom(d, user_id, i, t) ==
  IF i > Len(seed_notes) THEN d
  ELSE SeedNotesFrom(
         UpsertNote(d, seed_notes[i].title, seed_notes[i].content, user_id,
                    seed_notes[i].is_archived, t),
         user_id, i + 1, t)

\* Faulty variant: the inner loop stops after the first tag name.
TagNoteFirstOnly(d, note_id, tag_names, j, t) ==
  IF j > 1 \/ Len(tag_names) = 0 \/ SelectTagIds(d, tag_names[1]) = {} THEN d
  ELSE InsertOrIgnoreNoteTag(d, note_id, FetchOne(SelectTagIds(d, tag_names[1])), t)

\* The inner "for tag_name in tag_names" loop of _seed_note_tags.
RECURSIVE TagNoteFrom(_, _, _, _, _)
TagNoteFrom(d, note_id, tag_names, j, t) ==
  IF j > Len(tag_names) THEN d
  ELSE LET tag_row == SelectTagIds(d, tag_names[j]) IN
       IF tag_row = {} THEN TagNoteFrom(d, note_id, tag_names, j + 1, t)
       ELSE TagNoteFrom(InsertOrIgnoreNoteTag(d, note_id, FetchOne(tag_row), t),
                        note_id, tag_names, j + 1, t)

\* The outer "for note_title, tag_names in mappings.items()" loop.
RECURSIVE SeedNoteTagsFrom(_, _, _)
SeedNoteTagsFrom(d, i, t) ==
  IF i > Len(mappings) THEN d
  ELSE LET note_row == SelectNoteIds(d, mappings[i].note_title) IN
       IF note_row = {} THEN SeedNoteTagsFrom(d, i + 1, t)
       ELSE SeedNoteTagsFrom(
              TagNoteFrom(d, FetchOne(note_row), mappings[i].tag_names, 1, t),
              i + 1, t)

\* CREATE ... IF NOT EXISTS for the first k objects of a DDL list.
CreateIfNotExists(s, ddl, k) == s \cup {ddl[i] : i \in 1..k}

\* CREATE UNIQUE INDEX fails when the indexed column holds duplicates.
HasDuplicateTitles(d) ==
  \E m, n \in d.notes : m.id # n.id /\ m.title = n.title

\* Faulty variant: the finally clause commits whatever the transaction holds.
RollbackKeeps(d, j) == d

\* Closing the connection without a commit discards the open transaction.
Rollback(d, j) == IF j = <<>> THEN d ELSE j[1]

\* The process exit code: 0, or 1 when an exception left main().
ExitCode(exc) == IF exc = "none" THEN 0 ELSE 1


\* ------------------------------------------------------------------- Init
\* A fresh directory: no store file, no descriptor files, no run yet.
Init ==
  /\ pc = "idle"
  /\ schema = {}
  /\ db = EmptyStore
  /\ journal = <<>>
  /\ demo_user_id = NULL
  /\ raised = "none"
  /\ warnings = {}
  /\ written = {}
  /\ dir_exists = FALSE
  /\ now = 0
  /\ pre = EmptyStore
  /\ pre_schema = {}
  /\ after_commit = FALSE
  /\ runs = 0
  /\ ext = 0

SchemaSteps == {"create_core_tables", "create_notes_schema",
                "ensure_notes_title_unique_index"}
SeedSteps == {"upsert_app_info", "ensure_seed_user", "seed_tags", "seed_notes",
              "seed_note_tags", "commit"}

\* An exception leaves main(): the finally clause closes the connection, the
\* open transaction is rolled back, the interpreter exits with code 1.
Raise(exc) ==
  /\ pc' = "exit"
  /\ raised' = exc
  /\ db' = Rollback(db, journal)
  /\ journal' = <<>>

\* --------------------------------------------------------- the run: main()
\* main() up to the cursor: sqlite3.connect, which may fail, and the pragma.
main ==
  /\ pc \in {"idle", "exit"}
  /\ runs < MaxRuns
  /\ runs' = runs + 1
  /\ pre' = db
  /\ pre_schema' = schema
  /\ after_commit' = (pc = "exit" /\ raised \in {"none", "OSError"})
  /\ demo_user_id' = NULL
  /\ warnings' = {}
  /\ written' = {}
  /\ \E opened \in BOOLEAN :
       IF opened
       THEN pc' = "create_core_tables" /\ raised' = "none"
       ELSE pc' = "exit" /\ raised' = "OperationalError"
  /\ UNCHANGED <<schema, db, journal, dir_exists, now, ext>>

_create_core_tables ==
  /\ pc = "create_core_tables"
  /\ schema' = CreateIfNotExists(schema, core_tables_ddl, Len(core_tables_ddl))
  /\ pc' = "create_notes_schema"
  /\ UNCHANGED <<db, journal, demo_user_id, raised, warnings, written,
                 dir_exists, now, pre, pre_schema, after_commit, runs, ext>>

_create_notes_schema ==
  /\ pc = "create_notes_schema"
  /\ schema' = CreateIfNotExists(schema, notes_schema_ddl, Len(notes_schema_ddl))
  /\ pc' = "ensure_notes_title_unique_index"
  /\ UNCHANGED <<db, journal, demo_user_id, raised, warnings, written,
                 dir_exists, now, pre, pre_schema, after_commit, runs, ext>>

_ensure_notes_title_unique_index ==
  /\ pc = "ensure_notes_title_unique_index"
  /\ IF uq_notes_title \notin schema /\ HasDuplicateTitles(db)
     THEN /\ Raise("IntegrityError")
          /\ UNCHANGED schema
     ELSE /\ schema' = schema \cup {uq_notes_title}
          /\ pc' = "upsert_app_info"
          /\ UNCHANGED <<db, journal, raised>>
  /\ UNCHANGED <<demo_user_id, warnings, written, dir_exists, now, pre, pre_schema,
                 after_commit, runs, ext>>

\* The first INSERT opens the transaction of the run.
_upsert_app_info ==
  /\ pc = "upsert_app_info"
  /\ journal' = <<db>>
  /\ db' = UpsertAppInfoFrom(db, 1, now)
  /\ pc' = "ensure_seed_user"
  /\ UNCHANGED <<schema, demo_user_id, raised, warnings, written, dir_exists,
                 now, pre, pre_schema, after_commit, runs, ext>>

\* row[0] of a fetchone() that returned None raises TypeError.
_ensure_seed_user ==
  /\ pc = "ensure_seed_user"
  /\ LET d == InsertOrIgnoreUser(db, seed_username, seed_email, now)
         row == SelectUserIds(d, seed_username)
     IN IF row = {}
        THEN /\ Raise("TypeError")
             /\ UNCHANGED demo_user_id
        ELSE /\ db' = d
             /\ demo_user_id' = FetchOne(row)
             /\ pc' = "seed_tags"
             /\ UNCHANGED <<journal, raised>>
  /\ UNCHANGED <<schema, warnings, written, dir_exists, now, pre, pre_schema, after_commit,
                 runs, ext>>

_seed_tags ==
  /\ pc = "seed_tags"
  /\ db' = SeedTagsFrom(db, 1, now)
  /\ pc' = "seed_notes"
  /\ UNCHANGED <<schema, journal, demo_user_id, raised, warnings, written,
                 dir_exists, now, pre, pre_schema, after_commit, runs, ext>>

_seed_notes ==
  /\ pc = "seed_notes"
  /\ db' = SeedNotesFrom(db, demo_user_id, 1, now)
  /\ pc' = "seed_note_tags"
  /\ UNCHANGED <<schema, journal, demo_user_id, raised, warnings, written,
                 dir_exists, now, pre, pre_schema, after_commit, runs, ext>>

_seed_note_tags ==
  /\ pc = "seed_note_tags"
  /\ db' = SeedNoteTagsFrom(db, 1, now)
  /\ pc' = "commit"
  /\ UNCHANGED <<schema, journal, demo_user_id, raised, warnings, written,
                 dir_exists, now, pre, pre_schema, after_commit, runs, ext>>

\* conn.commit(); the statistics that follow only read.
commit ==
  /\ pc = "commit"
  /\ journal' = <<>>
  /\ pc' = "write_connection_files"
  /\ UNCHANGED <<schema, db, demo_user_id, raised, warnings, written,
                 dir_exists, now, pre, pre_schema, after_commit, runs, ext>>

\* The outcome of _write_connection_files when the operating system lets the
\* first open succeed (txt_ok), the makedirs succeed (mk_ok) and the second
\* open succeed (env_ok).  Only the two opens are inside try/except.
WriteConnectionFiles(dir, txt_ok, mk_ok, env_ok) ==
  LET w1 == IF txt_ok THEN {} ELSE {"Could not save connection info"}
      f1 == IF txt_ok THEN {"db_connection.txt"} ELSE {}
  IN IF ~dir /\ ~mk_ok
     THEN [raised |-> "OSError", warnings |-> w1, written |-> f1, dir |-> FALSE]
     ELSE [raised |-> "none",
           warnings |-> w1 \cup (IF env_ok THEN {}
                                 ELSE {"Could not save environment variables"}),
           written |-> f1 \cup (IF env_ok THEN {"db_visualizer/sqlite.env"} ELSE {}),
           dir |-> TRUE]

\* _write_connection_files and the rest of main(): prints, then the finally.
_write_connection_files ==
  /\ pc = "write_connection_files"
  /\ \E txt_ok, mk_ok, env_ok \in BOOLEAN :
       LET r == WriteConnectionFiles(dir_exists, txt_ok, mk_ok, env_ok) IN
       /\ raised' = r.raised
       /\ warnings' = r.warnings
       /\ written' = r.written
       /\ dir_exists' = r.dir
  /\ pc' = "exit"
  /\ UNCHANGED <<schema, db, journal, demo_user_id, now, pre, pre_schema, after_commit, runs, ext>>

\* A cursor.execute of a schema step fails (the store cannot be written):
\* the statements before it have been committed one by one.
schema_error ==
  /\ pc \in SchemaSteps
  /\ LET ddl == IF pc = "create_core_tables" THEN core_tables_ddl
                ELSE IF pc = "create_notes_schema" THEN notes_schema_ddl
                ELSE <<uq_notes_title>>
     IN \E k \in 0..(Len(ddl) - 1) : schema' = CreateIfNotExists(schema, ddl, k)
  /\ Raise("OperationalError")
  /\ UNCHANGED <<demo_user_id, warnings, written, dir_exists, now, pre, pre_schema,
                 after_commit, runs, ext>>

\* A cursor.execute of a seed step, or the commit, fails.
seed_error ==
  /\ pc \in SeedSteps
  /\ Raise("OperationalError")
  /\ UNCHANGED <<schema, demo_user_id, warnings, written, dir_exists, now, pre, pre_schema,
                 after_commit, runs, ext>>

\* The clock advances: between runs, or between two seed functions of a run
\* (the steps before the first seed statement and after the last one do not
\* read the clock, so a tick there is a tick before or after the run).
Tick ==
  /\ now < MaxClock
  /\ pc \in {"idle", "exit", "ensure_seed_user", "seed_tags", "seed_notes",
             "seed_note_tags"}
  /\ now' = now + 1
  /\ UNCHANGED <<pc, schema, db, journal, demo_user_id, raised, warnings,
                 written, dir_exists, pre, pre_schema, after_commit, runs, ext>>


\* ------------------------------------------- the application, between runs
\* Rows the application works on: one seed row and one row of its own per table.
AppTitles == {"Archived example", "Shopping list"}
AppTagNames == {"work", "home"}
AppUsers == {[username |-> "demo", email |-> "alice@example.com"],
             [username |-> "alice", email |-> "demo@example.com"],
             [username |-> "alice", email |-> "alice@example.com"]}
AppContent == "Edited in the app."
AppColor == "#000000"

\* Faulty variant: notes.user_id declared ON DELETE CASCADE.
DeleteUserRowCascade(d, id) ==
  LET gone == {n.id : n \in {x \in d.notes : x.user_id = id}} IN
  [d EXCEPT !.users = {u \in @ : u.id # id},
            !.notes = {n \in @ : n.user_id # id},
            !.note_tags = {r \in @ : r.note_id \notin gone}]

\* DELETE FROM users: notes.user_id is ON DELETE SET NULL.
DeleteUserRow(d, id) ==
  [d EXCEPT !.users = {u \in @ : u.id # id},
            !.notes = {IF n.user_id = id THEN [n EXCEPT !.user_id = NULL] ELSE n
                       : n \in @}]

\* DELETE FROM notes: note_tags.note_id is ON DELETE CASCADE.
DeleteNoteRow(d, id) ==
  [d EXCEPT !.notes = {n \in @ : n.id # id},
            !.note_tags = {r \in @ : r.note_id # id}]

\* Faulty variant: note_tags.tag_id declared without ON DELETE CASCADE and not enforced.
DeleteTagRowNoCascade(d, id) ==
  [d EXCEPT !.tags = {g \in @ : g.id # id}]

\* DELETE FROM tags: note_tags.tag_id is ON DELETE CASCADE.
DeleteTagRow(d, id) ==
  [d EXCEPT !.tags = {g \in @ : g.id # id},
            !.note_tags = {r \in @ : r.tag_id # id}]

\* The process of the last run is gone; no connection of it is left.
AppStep ==
  /\ pc \in {"idle", "exit"}
  /\ ext < MaxExt
  /\ ext' = ext + 1
  /\ pc' = "idle"
  /\ raised' = "none"
  /\ warnings' = {}
  /\ written' = {}
  /\ demo_user_id' = NULL
  /\ pre' = db
  /\ after_commit' = FALSE
  /\ UNCHANGED <<schema, journal, dir_exists, now, pre_schema, runs>>

AddUser ==
  /\ AppStep
  /\ "users" \in schema
  /\ \E a \in AppUsers :
       /\ \A u \in db.users : u.username # a.username /\ u.email # a.email
       /\ db' = [db EXCEPT !.users = @ \cup {[id |-> db.seq.users + 1,
                                              username |-> a.username,
                                              email |-> a.email,
                                              created_at |-> now]},
                           !.seq.users = @ + 1]

DeleteUser ==
  /\ AppStep
  /\ \E u \in db.users : db' = DeleteUserRow(db, u.id)

\* notes.title is unique only once the index uq_notes_title exists.
AddNote ==
  /\ AppStep
  /\ "notes" \in schema
  /\ \E title \in AppTitles, uid \in {NULL} \cup {u.id : u \in db.users} :
       /\ uq_notes_title \in schema => \A n \in db.notes : n.title # title
       /\ db' = [db EXCEPT !.notes = @ \cup {[id |-> db.seq.notes + 1,
                                              title |-> title,
                                              content |-> AppContent,
                                              user_id |-> uid,
                                              is_archived |-> 0,
                                              created_at |-> now,
                                              updated_at |-> now]},
                           !.seq.notes = @ + 1]

EditNote ==
  /\ AppStep
  /\ \E n \in db.notes, field \in {"content", "is_archived"} :
       /\ n.title \in AppTitles
       /\ db' = [db EXCEPT !.notes = (@ \ {n}) \cup
                   {IF field = "content"
                    THEN [n EXCEPT !.content = AppContent, !.updated_at = now]
                    ELSE [n EXCEPT !.is_archived = 1 - @, !.updated_at = now]}]
       /\ db' # db

DeleteNote ==
  /\ AppStep
  /\ \E n \in db.notes :
       /\ n.title \in AppTitles
       /\ db' = DeleteNoteRow(db, n.id)

AddTag ==
  /\ AppStep
  /\ "tags" \in schema
  /\ \E name \in AppTagNames :
       /\ \A g \in db.tags : g.name # name
       /\ db' = [db EXCEPT !.tags = @ \cup {[id |-> db.seq.tags + 1,
                                             name |-> name, color |-> AppColor,
                                             created_at |-> now]},
                           !.seq.tags = @ + 1]

EditTagColor ==
  /\ AppStep
  /\ \E g \in db.tags :
       /\ g.name \in AppTagNames
       /\ g.color # AppColor
       /\ db' = [db EXCEPT !.tags = (@ \ {g}) \cup {[g EXCEPT !.color = AppColor]}]

DeleteTag ==
  /\ AppStep
  /\ \E g \in db.tags :
       /\ g.name \in AppTagNames
       /\ db' = DeleteTagRow(db, g.id)

\* INSERT INTO note_tags: both foreign keys are checked.
TagNote ==
  /\ AppStep
  /\ \E n \in db.notes, g \in db.tags :
       /\ n.title \in AppTitles
       /\ g.name \in AppTagNames
       /\ \A r \in db.note_tags : ~(r.note_id = n.id /\ r.tag_id = g.id)
       /\ db' = [db EXCEPT !.note_tags = @ \cup {[note_id |-> n.id,
                                                  tag_id |-> g.id,
                                                  created_at |-> now]}]

Run ==
  \/ main
  \/ _create_core_tables
  \/ _create_notes_schema
  \/ _ensure_notes_title_unique_index
  \/ _upsert_app_info
  \/ _ensure_seed_user
  \/ _seed_tags
  \/ _seed_notes
  \/ _seed_note_tags
  \/ commit
  \/ _write_connection_files
  \/ schema_error
  \/ seed_error

App ==
  \/ AddUser
  \/ DeleteUser
  \/ AddNote
  \/ EditNote
  \/ DeleteNote
  \/ AddTag
  \/ EditTagColor
  \/ DeleteTag
  \/ TagNote

Next == Run \/ App \/ Tick

Spec == Init /\ [][Next]_vars


\* ------------------------------------------- what one whole run would do
\* The three schema functions of main(), none failing.
SchemaAfterRun(s) ==
  CreateIfNotExists(
    CreateIfNotExists(
      CreateIfNotExists(s, core_tables_ddl, Len(core_tables_ddl)),
      notes_schema_ddl, Len(notes_schema_ddl)),
    <<uq_notes_title>>, 1)

\* The five seed functions of main() at time t; d itself when the run raises.
SeedAfterRun(d, t) ==
  LET d1 == UpsertAppInfoFrom(d, 1, t)
      d2 == InsertOrIgnoreUser(d1, seed_username, seed_email, t)
      row == SelectUserIds(d2, seed_username)
  IN IF row = {} THEN d
     ELSE SeedNoteTagsFrom(
            SeedNotesFrom(SeedTagsFrom(d2, 1, t), FetchOne(row), 1, t), 1, t)

\* ------------------------------------------------------------- vocabulary
\* The run has committed: it is writing the descriptor files or has ended
\* after doing so.
RunCommitted ==
  \/ pc = "write_connection_files"
  \/ pc = "exit" /\ raised \in {"none", "OSError"}

\* The run has ended with an exception raised before its commit.
RunFailedBeforeCommit ==
  pc = "exit" /\ raised \in {"OperationalError", "IntegrityError", "TypeError"}

\* The five tables, without the AUTOINCREMENT counters.
Tables(d) ==
  [app_info |-> d.app_info, users |-> d.users, notes |-> d.notes,
   tags |-> d.tags, note_tags |-> d.note_tags]

\* The tables without the columns a run refreshes every time.
TablesModuloRefresh(d) ==
  [app_info |-> {[key |-> r.key, value |-> r.value] : r \in d.app_info},
   users |-> d.users,
   notes |-> {[id |-> n.id, title |-> n.title, content |-> n.content,
               user_id |-> n.user_id, is_archived |-> n.is_archived,
               created_at |-> n.created_at] : n \in d.notes},
   tags |-> d.tags,
   note_tags |-> d.note_tags]

RowCounts(d) ==
  [app_info |-> Cardinality(d.app_info), users |-> Cardinality(d.users),
   notes |-> Cardinality(d.notes), tags |-> Cardinality(d.tags),
   note_tags |-> Cardinality(d.note_tags)]

NotesTitled(d, title) == {n \in d.notes : n.title = title}
TagsNamed(d, name) == {g \in d.tags : g.name = name}
UserIds(d) == {u.id : u \in d.users}


\* ------------------------------------------------------------------ claims

\* C1, as stated: a run that starts right after a run that committed ends
\* with the same rows, column for column, in app_info, users, notes, tags and
\* note_tags as the store had after the first run.
C1_SecondRunSameRows ==
  (pc = "exit" /\ after_commit) => Tables(db) = Tables(pre)

\* C1, amended: a run that starts right after a run that committed ends with
\* the same row counts and the same rows, except for the id and created_at of
\* the app_info rows (each run replaces them) and the updated_at of the notes
\* (each run sets it anew).
C1_SecondRunSameModuloRefresh ==
  (pc = "exit" /\ after_commit) =>
    /\ RowCounts(db) = RowCounts(pre)
    /\ TablesModuloRefresh(db) = TablesModuloRefresh(pre)

\* A second run in sequence has completed and has replaced the app_info rows.
C1_Witness ==
  /\ pc = "exit"
  /\ after_commit
  /\ raised = "none"
  /\ db.app_info # pre.app_info


\* C2: when a run has committed, exactly one note has each seed title, with
\* the seed content, the seed archived flag and the id and created_at the note
\* of that title had before the run, if there was one; and the _seed_notes
\* step sets the updated_at of every seed note to the current time.
C2_SeedNotesUpserted ==
  /\ [](RunCommitted =>
          \A i \in 1..Len(seed_notes) :
            LET s == seed_notes[i] IN
            /\ Cardinality(NotesTitled(db, s.title)) = 1
            /\ \A n \in NotesTitled(db, s.title) :
                 /\ n.content = s.content
                 /\ n.is_archived = s.is_archived
                 /\ \A m \in NotesTitled(pre, s.title) :
                      n.id = m.id /\ n.created_at = m.created_at)
  /\ [][(pc = "seed_notes" /\ pc' = "seed_note_tags") =>
          \A i \in 1..Len(seed_notes) :
            \A n \in NotesTitled(db', seed_notes[i].title) : n.updated_at = now]_vars

\* A run has committed over a seed note the application had edited: the note
\* has the seed content again, under the same id.
C2_Witness ==
  /\ RunCommitted
  /\ \E m \in pre.notes, n \in db.notes :
       /\ m.title \in SeedTitles
       /\ m.content = AppContent
       /\ n.id = m.id
       /\ n.content # AppContent
       /\ n.updated_at > m.updated_at

\* C3: during and after a run every tag that existed before the run is still
\* there with the color it had, and when a run has committed exactly one tag
\* has each seed tag name.
C3_SeedTagsInsertedOnce ==
  /\ pc # "idle" => \A g \in pre.tags : g \in db.tags
  /\ RunCommitted =>
       \A i \in 1..Len(seed_tags) : Cardinality(TagsNamed(db, seed_tags[i].name)) = 1

\* A run has committed over a seed tag whose color the application had changed.
C3_Witness ==
  /\ RunCommitted
  /\ \E g \in pre.tags :
       /\ g.name \in SeedTagNames
       /\ g.color = AppColor
       /\ g \in db.tags

\* C4: every note_tags row references a note and a tag that exist, and no
\* pair (note_id, tag_id) occurs twice.
C4_NoteTagsReferentialIntegrity ==
  /\ \A r \in db.note_tags :
       /\ \E n \in db.notes : n.id = r.note_id
       /\ \E g \in db.tags : g.id = r.tag_id
  /\ \A r1, r2 \in db.note_tags :
       (r1.note_id = r2.note_id /\ r1.tag_id = r2.tag_id) => r1 = r2

\* The application has deleted a tag that seed notes were tagged with, and
\* other associations remain.
C4_Witness ==
  /\ pc = "idle"
  /\ db.note_tags # {}
  /\ \E g \in pre.tags :
       /\ g \notin db.tags
       /\ \E r \in pre.note_tags : r.tag_id = g.id

\* C5: no note references a user that does not exist, and the deletion of a
\* user removes no note: every note is still there with its id, title, content
\* and archived flag, its user_id NULL if it referenced the deleted user.
C5_DeleteUserKeepsNotes ==
  /\ \A n \in db.notes : n.user_id = NULL \/ n.user_id \in UserIds(db)
  /\ (pc = "idle" /\ UserIds(db) # UserIds(pre) /\ UserIds(db) \subseteq UserIds(pre)) =>
       /\ Cardinality(db.notes) = Cardinality(pre.notes)
       /\ \A n \in pre.notes :
            \E m \in db.notes :
              /\ m.id = n.id
              /\ m.title = n.title
              /\ m.content = n.content
              /\ m.is_archived = n.is_archived
              /\ m.user_id = IF n.user_id \in UserIds(db) THEN n.user_id ELSE NULL

\* The seeded user has been deleted after a run: the four seed notes are there
\* without an owner.
C5_Witness ==
  /\ pc = "idle"
  /\ \E u \in pre.users : u.username = seed_username /\ u \notin db.users
  /\ \A title \in SeedTitles :
       \E n \in db.notes : n.title = title /\ n.user_id = NULL

\* C6: _ensure_seed_user never raises, and once it has returned exactly one
\* user has the username "demo" and demo_user_id is that user's id.
C6_EnsureSeedUserNeverErrors ==
  /\ raised # "TypeError"
  /\ pc \in {"seed_tags", "seed_notes", "seed_note_tags", "commit"} =>
       /\ Cardinality(SelectUserIds(db, seed_username)) = 1
       /\ demo_user_id \in SelectUserIds(db, seed_username)

\* C7: a run that fails before its commit leaves every row and counter as it
\* was before the run and removes nothing from the schema, so that a further
\* run ends in the state a run from the store before the failed run ends in.
C7_FailedRunLeavesStore ==
  RunFailedBeforeCommit =>
    /\ db = pre
    /\ pre_schema \subseteq schema
    /\ SchemaAfterRun(schema) = SchemaAfterRun(pre_schema)
    /\ SeedAfterRun(db, now) = SeedAfterRun(pre, now)

\* A run has failed after it created schema objects and after _ensure_seed_user
\* had written in the transaction.
C7_Witness ==
  /\ RunFailedBeforeCommit
  /\ demo_user_id # NULL
  /\ schema # pre_schema

\* C8: a run that has committed ends with exit code 0, whatever happens to
\* the descriptor files.
C8_DescriptorFailureIsWarning ==
  (pc = "exit" /\ RunCommitted) => ExitCode(raised) = 0

\* C9: a run on a fresh empty store that has committed leaves exactly 4 notes,
\* exactly 4 tags, at least 5 note_tags rows, one for each pair of mappings,
\* and an app_info row ("version", "0.2.0"), each app_info key occurring once.
C9_FreshStoreRun ==
  (RunCommitted /\ pre = EmptyStore /\ pre_schema = {}) =>
    /\ Cardinality(db.notes) = 4
    /\ Cardinality(db.tags) = 4
    /\ Cardinality(db.note_tags) >= 5
    /\ \A i \in 1..Len(mappings) :
         \A j \in 1..Len(mappings[i].tag_names) :
           \E r \in db.note_tags, n \in db.notes, g \in db.tags :
             /\ n.title = mappings[i].note_title
             /\ g.name = mappings[i].tag_names[j]
             /\ r.note_id = n.id
             /\ r.tag_id = g.id
    /\ \E r \in db.app_info : r.key = "version" /\ r.value = "0.2.0"
    /\ \A r1, r2 \in db.app_info : r1.key = r2.key => r1 = r2

\* The first run, on the fresh store, has completed.
C9_Witness ==
  /\ pc = "exit"
  /\ raised = "none"
  /\ pre = EmptyStore
  /\ pre_schema = {}
  /\ db.note_tags # {}

\* C10: during and after a run, every note with no seed title, every tag with
\* no seed name, every user other than "demo" and every note_tags row that
\* existed before the run is unchanged, and every note, tag and user that
\* existed before the run still exists.
C10_RunLeavesOtherRows ==
  pc # "idle" =>
    /\ \A n \in pre.notes :
         /\ n.title \notin SeedTitles => n \in db.notes
         /\ \E m \in db.notes : m.id = n.id
    /\ \A g \in pre.tags :
         /\ g.name \notin SeedTagNames => g \in db.tags
         /\ \E h \in db.tags : h.id = g.id
    /\ \A u \in pre.users :
         /\ u.username # seed_username => u \in db.users
         /\ \E v \in db.users : v.id = u.id
    /\ \A r \in pre.note_tags : r \in db.note_tags

\* A run has committed on a store that held a note of the application.
C10_Witness ==
  /\ RunCommitted
  /\ \E n \in pre.notes : n.title \notin SeedTitles /\ n \in db.notes
  /\ db.notes # pre.notes

====
